---- MODULE Spec2Model ----
(***************************************************************************)
(* A model of the quantitative pipeline of mhendzel2/studio:               *)
(*   src/src/ai/flows/statistical-analysis.ts   (analyzeData and helpers)  *)
(*   src/src/ai/flows/morphometric-feature-extraction.ts                   *)
(*   src/unnamed/part_003                       (cellposeSegmentation)     *)
(*                                                                         *)
(* Numbers.  A JavaScript number is modelled as an exact fraction          *)
(* <<num, den>> in lowest terms with den > 0; NaN is <<0, 0>> and          *)
(* +Infinity is <<1, 0>>.  Rounding of IEEE doubles is not modelled.       *)
(***************************************************************************)
EXTENDS Integers, Sequences, FiniteSets, TLC

(***************************************************************************)
(* Bounds of the model.                                                    *)
(***************************************************************************)
\* Longest list of raw p-values handed to a correction on its own.
MaxPValues == 3
\* Raw p-values of the correction checks are k/PDen for k in 0..PDen.
PDen == 3
\* Most datasets in one analyzeData input.
MaxDatasets == 3
\* Most contours cv.findContours reports for an image of the model.
MaxContours == 2
\* Calls of cellposeSegmentation on one image.
MaxRuns == 2
\* Datasets the application holds, and files of one handleSubmit, at most.
MaxAppDatasets == 3
MaxFiles == 2
\* Images on the analysis tab, and runFeatureExtraction calls in flight at
\* once, at most.
MaxAutoImages == 3
MaxExRuns == 2
\* Width and height, in pixels, of the images handed to feature extraction.
GridW == 15
GridH == 9

VARIABLES
  \* -- benjaminiHochbergCorrection / bonferroniCorrection called alone
  pValues,        \* the argument
  correctedP,     \* the returned array
  cpc,            \* "input" | "corrected"
  \* -- analyzeData
  ss,             \* whether require('simple-statistics') was loaded (line 12)
  input,          \* the AnalysisInput of the call
  datasetFeatures,\* the local of lines 164-178
  rawP,           \* the local pValues of line 180
  correctedPValues, \* the local of line 211
  results,        \* the list returned to the caller
  outcome,        \* "none" | "returned" | "threw"
  caught,         \* whether the catch block of lines 233-252 ran
  \* -- cellposeSegmentation
  segImage,       \* the image behind input.photoDataUri
  segOutputs,     \* what each call so far settled with, in call order
  \* -- extractMorphometricFeatures
  exInput,        \* the two images behind the data URIs of the input
  exComponents,   \* the local components of line 213, once it is set
  exFills,        \* what each floodFill call of line 120 returned, in order
  exResult,       \* what the call settled with
  exCaught,       \* whether the catch block of lines 233-258 ran
  \* -- calculateCircularity and the clamp of line 226, for one component
  ccArea,         \* the argument area
  ccPerimeter,    \* the argument perimeter
  ccCircularity,  \* the circularity of the record, once it is computed
  \* -- the application state of AppProvider and the handlers of the tabs
  datasets,       \* state.datasets
  activeTab,      \* state.activeTab
  appCrashed,     \* a state updater threw while React rendered
  nextId,         \* how many ids uuidv4() has handed out
  folder,         \* the handleFolderChange call in flight
  segRun,         \* the handleRunSegmentation call in flight, and its states
  exRuns,         \* the runFeatureExtraction calls in flight, oldest first
  effectDue       \* datasets changed since the effect of AnalysisTab ran

statVars == <<ss, input, datasetFeatures, rawP, correctedPValues, results,
              outcome, caught>>
corrVars == <<pValues, correctedP, cpc>>
segVars == <<segImage, segOutputs>>
exVars == <<exInput, exComponents, exFills, exResult, exCaught>>
circVars == <<ccArea, ccPerimeter, ccCircularity>>
appVars == <<datasets, activeTab, appCrashed, nextId, folder, segRun, exRuns,
             effectDue>>
vars == <<pValues, correctedP, cpc, ss, input, datasetFeatures, rawP,
          correctedPValues, results, outcome, caught, segImage, segOutputs,
          exInput, exComponents, exFills, exResult, exCaught,
          ccArea, ccPerimeter, ccCircularity,
          datasets, activeTab, appCrashed, nextId, folder, segRun, exRuns,
          effectDue>>

(***************************************************************************)
(* JavaScript numbers.                                                     *)
(***************************************************************************)
RECURSIVE Gcd(_, _)
Gcd(a, b) == IF b = 0 THEN a ELSE Gcd(b, a % b)

NaN == <<0, 0>>
IsNaN(x) == x = NaN
\* +Infinity: a positive number divided by 0.  Only the test statistics of
\* performTTest and performANOVA can be infinite.
Infinity == <<1, 0>>

\* The number n/d (n >= 0, d > 0) in lowest terms.
Num(n, d) == LET g == Gcd(n, d) IN <<n \div g, d \div g>>

Zero == <<0, 1>>
One == <<1, 1>>

\* a < b for two numbers that are not NaN.
Less(a, b) == a[1] * b[2] < b[1] * a[2]
\* a * k and a / k for an integer k > 0; NaN stays NaN.
Times(a, k) == IF IsNaN(a) THEN NaN ELSE Num(a[1] * k, a[2])
Over(a, k) == IF IsNaN(a) THEN NaN ELSE Num(a[1], a[2] * k)

\* Math.min: NaN as soon as one argument is NaN.
MathMin2(a, b) ==
  IF IsNaN(a) \/ IsNaN(b) THEN NaN ELSE IF Less(b, a) THEN b ELSE a
MathMin3(a, b, c) == MathMin2(MathMin2(a, b), c)

\* Math.max of two finite numbers or NaN.
MathMax2(a, b) ==
  IF IsNaN(a) \/ IsNaN(b) THEN NaN ELSE IF Less(a, b) THEN b ELSE a

\* a / b for a >= 0 and b >= 0, neither infinite: 0/0 is NaN, a/0 is
\* +Infinity for a > 0.
Quot(a, b) ==
  IF IsNaN(a) \/ IsNaN(b) THEN NaN
  ELSE IF b[1] = 0 THEN (IF a[1] = 0 THEN NaN ELSE Infinity)
  ELSE Num(a[1] * b[2], a[2] * b[1])

\* a * b for finite a and b; NaN stays NaN.
Mul(a, b) ==
  IF IsNaN(a) \/ IsNaN(b) THEN NaN ELSE Num(a[1] * b[1], a[2] * b[2])

\* Math.abs(a - b) for finite a and b.
AbsDiff(a, b) ==
  LET d == a[1] * b[2] - b[1] * a[2] IN
  Num(IF d < 0 THEN 0 - d ELSE d, a[2] * b[2])

\* Math.sqrt of a number whose root is a fraction (NaN stays NaN).  The
\* samples of the model are chosen so that every root taken is one.
ISqrt(n) == CHOOSE r \in 0..n : r * r = n
Sqrt(a) == IF IsNaN(a) THEN NaN ELSE <<ISqrt(a[1]), ISqrt(a[2])>>

\* x || y on numbers: 0 and NaN are falsy.
OrElse(x, y) == IF IsNaN(x) \/ x[1] = 0 THEN y ELSE x

(***************************************************************************)
(* Array.prototype.sort with the comparator (a, b) => a.p - b.p.           *)
(***************************************************************************)
\* The comparator's verdict "a sorts before b": a.p - b.p < 0.  A NaN
\* difference is read as +0 by the sort.
Before(pv, i, j) == ~IsNaN(pv[i]) /\ ~IsNaN(pv[j]) /\ Less(pv[i], pv[j])

\* Index idx put into an already sorted list of smaller indices, behind
\* every entry it does not sort before (the sort is stable).
RECURSIVE InsertSorted(_, _, _)
InsertSorted(pv, sorted, idx) ==
  IF sorted = <<>> THEN <<idx>>
  ELSE LET last == sorted[Len(sorted)] IN
       IF Before(pv, idx, last)
       THEN Append(InsertSorted(pv, SubSeq(sorted, 1, Len(sorted) - 1), idx), last)
       ELSE Append(sorted, idx)

RECURSIVE StableSort(_, _)
StableSort(pv, k) ==
  IF k = 0 THEN <<>> ELSE InsertSorted(pv, StableSort(pv, k - 1), k)

\* The comparator is consistent unless a NaN sits among numbers that differ:
\* then NaN "equals" two entries that are not equal to each other.
ConsistentComparator(pv) ==
  \/ \A i \in DOMAIN pv : ~IsNaN(pv[i])
  \/ \A i, j \in DOMAIN pv :
       (~IsNaN(pv[i]) /\ ~IsNaN(pv[j])) => pv[i] = pv[j]

\* Sequence p with x put at position i.
InsertAt(p, i, x) ==
  SubSeq(p, 1, i - 1) \o <<x>> \o SubSeq(p, i, Len(p))

\* The orders of the indices 1..n.
RECURSIVE IndexOrders(_)
IndexOrders(n) ==
  IF n = 0 THEN {<<>>}
  ELSE {InsertAt(p, i, n) : p \in IndexOrders(n - 1), i \in 1..n}

\* The orders of every list length of the model, computed once.
MaxListLen ==
  IF MaxPValues > (MaxDatasets * (MaxDatasets - 1)) \div 2
  THEN MaxPValues ELSE (MaxDatasets * (MaxDatasets - 1)) \div 2
AllIndexOrders == [n \in 0..MaxListLen |-> IndexOrders(n)]

\* The orders sort may leave the indices in: the stable ascending order, or,
\* for an inconsistent comparator, an implementation-defined permutation.
SortOutcomes(pv) ==
  IF ConsistentComparator(pv)
  THEN {StableSort(pv, Len(pv))}
  ELSE AllIndexOrders[Len(pv)]

(***************************************************************************)
(* bonferroniCorrection (lines 124-127).                                   *)
(***************************************************************************)
\* A faulty variant: the factor counts the other comparisons only.
bonferroniOthersOnly(pv) ==
  [i \in 1..Len(pv) |-> MathMin2(One, Times(pv[i], Len(pv) - 1))]

bonferroniCorrection(pv) ==
  LET correctionFactor == Len(pv) IN
  [i \in 1..Len(pv) |-> MathMin2(One, Times(pv[i], correctionFactor))]

(***************************************************************************)
(* benjaminiHochbergCorrection (lines 132-153).  sortedIndices is the      *)
(* order the sort left; the loop runs i = n .. 1 (1-based here, so the     *)
(* rank is i) and writes correctedP at the original index.  An array slot  *)
(* not yet written reads as undefined, which Math.min turns into NaN: the  *)
(* array starts as NaN everywhere.                                         *)
(***************************************************************************)
\* A faulty variant: the value is written at its sorted position.
BHTargetSortedPosition(sortedIndices, i) == i

\* The slot the loop writes in iteration i.
BHTarget(sortedIndices, i) == sortedIndices[i]

\* The candidate of iteration i: sortedIndices[i].p * n / rank.
BHCandidate(pv, sortedIndices, i) ==
  Over(Times(pv[sortedIndices[i]], Len(pv)), i)

\* A faulty variant: the value of the next rank is not taken into the minimum.
BHStepOwnCandidate(pv, sortedIndices, i, arr) ==
  [arr EXCEPT ![BHTarget(sortedIndices, i)] =
     MathMin2(One, BHCandidate(pv, sortedIndices, i))]

\* One iteration of the loop body (lines 141-149).
BHStep(pv, sortedIndices, i, arr) ==
  LET n == Len(pv)
      corrected == BHCandidate(pv, sortedIndices, i)
      value == IF i = n
               THEN MathMin2(One, corrected)
               ELSE MathMin3(One, corrected, arr[sortedIndices[i + 1]])
  IN [arr EXCEPT ![BHTarget(sortedIndices, i)] = value]

RECURSIVE BHLoop(_, _, _, _)
BHLoop(pv, sortedIndices, i, arr) ==
  IF i = 0 THEN arr
  ELSE BHLoop(pv, sortedIndices, i - 1, BHStep(pv, sortedIndices, i, arr))

benjaminiHochbergCorrection(pv, sortedIndices) ==
  BHLoop(pv, sortedIndices, Len(pv), [i \in 1..Len(pv) |-> NaN])

(***************************************************************************)
(* The corrections on their own: the argument is drawn from the lists of   *)
(* p-values k/PDen, and one action applies the function.                   *)
(***************************************************************************)
PValueSet == {Num(k, PDen) : k \in 0..PDen}
PValueLists == UNION {[1..n -> PValueSet] : n \in 0..MaxPValues}

CorrInit ==
  /\ pValues \in PValueLists
  /\ correctedP = <<>>
  /\ cpc = "input"

ApplyBenjaminiHochberg ==
  /\ cpc = "input"
  /\ \E sortedIndices \in SortOutcomes(pValues) :
       correctedP' = benjaminiHochbergCorrection(pValues, sortedIndices)
  /\ cpc' = "corrected"
  /\ UNCHANGED pValues

(***************************************************************************)
(* analyzeData (lines 155-253) and the helpers it calls.                   *)
(***************************************************************************)
\* Inputs of the model.  A feature record is the list of its entries in
\* insertion order, the order of Object.values().  The names of the k
\* datasets of an input are distinct and in alphabetical order, distinct and
\* in reverse order, or all the same.
NameStock == <<"A", "B", "C", "D", "E", "F">>
Metrics == <<"area", "perimeter", "circularity">>
FeatureRecord(values) ==
  [j \in 1..Len(values) |-> [key |-> Metrics[j], value |-> values[j]]]
\* The records of one input come from one of these families: in each, every
\* root that performTTest takes for two of its records is a fraction.
FeatureFamilies ==
  {{FeatureRecord(<<7>>), FeatureRecord(<<0, 1, 2>>),
    FeatureRecord(<<4, 5, 6>>), FeatureRecord(<<20, 21, 22>>)},
   {FeatureRecord(<<>>), FeatureRecord(<<5, 5, 5>>)}}
FeatureSamples == UNION FeatureFamilies
NameLists(k) ==
  {[i \in 1..k |-> NameStock[i]],
   [i \in 1..k |-> NameStock[k + 1 - i]],
   [i \in 1..k |-> NameStock[1]]}
DataInputs ==
  UNION {{[i \in 1..k |-> [dataset |-> nm[i], features |-> f[i]]] :
            nm \in NameLists(k),
            f \in UNION {[1..k -> family] : family \in FeatureFamilies}} :
         k \in 0..MaxDatasets}
StatisticalTests == {"t-test", "ANOVA"}
CorrectionMethods == {"Bonferroni", "Benjamini-Hochberg", "None"}

\* What Math.random() * 1000 of line 176 may give.
RandomSamples == {3, 9}
\* What Math.random() * 0.1 (lines 43, 68, 76, 117) and, in the catch block
\* of analyzeData, Math.random() * 0.2 may give.
RandomPValues == {Zero, Num(1, 16)}
MockPValues == RandomPValues \cup {Num(3, 20)}

Plus(a, b) ==
  IF IsNaN(a) \/ IsNaN(b) THEN NaN
  ELSE Num(a[1] * b[2] + b[1] * a[2], a[2] * b[2])

\* 1 - q for a number q in [0, 1].
OneMinus(q) == IF IsNaN(q) THEN NaN ELSE Num(q[2] - q[1], q[2])

\* The set of sequences s with s[i] \in sets[i].
RECURSIVE SeqProduct(_)
SeqProduct(sets) ==
  IF sets = <<>> THEN {<<>>}
  ELSE {Append(s, x) : s \in SeqProduct(SubSeq(sets, 1, Len(sets) - 1)),
                       x \in sets[Len(sets)]}

\* simple-statistics, on a non-empty list of non-negative integers.
\* ss.sum, and ss.mean = sum / length.
RECURSIVE Sum(_)
Sum(group) ==
  IF group = <<>> THEN 0
  ELSE group[Len(group)] + Sum(SubSeq(group, 1, Len(group) - 1))
mean(group) == Num(Sum(group), Len(group))
\* The sum of (x - mean)^2 over the list: x - mean = (x * n - sum) / n.
SumSquaredDeviations(group) ==
  LET n == Len(group)
      total == Sum(group)
  IN Num(Sum([i \in 1..n |-> (group[i] * n - total) * (group[i] * n - total)]),
         n * n)
\* ss.variance: the population variance, the square of ss.standardDeviation.
variance(group) == Over(SumSquaredDeviations(group), Len(group))

\* ss.standardDeviation(group) = 0: every value equals the first.
ZeroDeviation(group) == variance(group) = Zero

\* std * std / n of lines 55 and 59-60.
SquaredError(group) == Over(variance(group), Len(group))

\* Line 55 under the root: (std1 * std1) / n1 + (std2 * std2) / n2.
PooledVariance(group1, group2) ==
  Plus(SquaredError(group1), SquaredError(group2))

\* Lines 59-60: the degrees of freedom of Welch's test.  A group of one
\* value has n - 1 = 0 and a deviation of 0, so its term is 0/0; two groups
\* without deviation give 0/0 as a whole: df is NaN.
WelchDf(group1, group2) ==
  LET e1 == SquaredError(group1)
      e2 == SquaredError(group2)
  IN Quot(Mul(PooledVariance(group1, group2), PooledVariance(group1, group2)),
          Plus(Quot(Mul(e1, e1), Num(Len(group1) - 1, 1)),
               Quot(Mul(e2, e2), Num(Len(group2) - 1, 1))))

\* Math.abs(tStat) of lines 55-56 and 63: |mean1 - mean2| / pooledStd.
AbsTStat(group1, group2) ==
  Quot(AbsDiff(mean(group1), mean(group2)),
       Sqrt(PooledVariance(group1, group2)))

\* Line 63: 2 * (1 - |tStat| / (|tStat| + Math.sqrt(df))).  With df NaN the
\* value is NaN whatever tStat is; otherwise pooledStd > 0, and tStat and df
\* are finite.
TTestPValue(group1, group2) ==
  LET df == WelchDf(group1, group2)
      t == AbsTStat(group1, group2)
  IN IF IsNaN(df) THEN NaN
     ELSE Times(OneMinus(Quot(t, Plus(t, Sqrt(df)))), 2)

\* performTTest (lines 42-70): the values a call may return.
\*  - without simple-statistics, or when ss.mean throws on an empty group,
\*    Math.random() * 0.1;
\*  - otherwise Math.max(0, Math.min(1, pValue)), which is NaN for a NaN.
performTTest(group1, group2) ==
  IF ~ss \/ Len(group1) = 0 \/ Len(group2) = 0 THEN RandomPValues
  ELSE {MathMax2(Zero, MathMin2(One, TTestPValue(group1, group2)))}

\* groups.flat() (line 80).
RECURSIVE Flat(_)
Flat(groups) ==
  IF groups = <<>> THEN <<>>
  ELSE Flat(SubSeq(groups, 1, Len(groups) - 1)) \o groups[Len(groups)]

\* The sum of a list of finite numbers.
RECURSIVE SumOf(_)
SumOf(terms) ==
  IF terms = <<>> THEN Zero
  ELSE Plus(SumOf(SubSeq(terms, 1, Len(terms) - 1)), terms[Len(terms)])

\* Lines 84-89: the between-group sum of squares.
BetweenSS(groups) ==
  LET overallMean == mean(Flat(groups)) IN
  SumOf([g \in 1..Len(groups) |->
           LET d == AbsDiff(mean(groups[g]), overallMean) IN
           Times(Mul(d, d), Len(groups[g]))])

\* Lines 91-98: the within-group sum of squares.
WithinSS(groups) ==
  SumOf([g \in 1..Len(groups) |-> SumSquaredDeviations(groups[g])])

\* Lines 100-109: fStat = betweenMS / withinMS.  It is NaN when withinMS is
\* 0/0 (every group has one value) or both mean squares are 0, and +Infinity
\* when only withinMS is 0.
FStat(groups) ==
  LET betweenDF == Len(groups) - 1
      withinDF == Len(Flat(groups)) - Len(groups)
      betweenMS == Over(BetweenSS(groups), betweenDF)
      withinMS == Quot(WithinSS(groups), Num(withinDF, 1))
  IN Quot(betweenMS, withinMS)

\* Lines 112-114: Math.max(0, Math.min(1, Math.exp(-fStat / 2))), as the
\* number x (form "p") or as exp(-x/2) for a finite x > 0 (form "exp").
ANOVAPValue(groups) ==
  LET fStat == FStat(groups) IN
  IF IsNaN(fStat) THEN [form |-> "p", x |-> NaN]
  ELSE IF fStat = Infinity THEN [form |-> "p", x |-> Zero]
  ELSE IF fStat = Zero THEN [form |-> "p", x |-> One]
  ELSE [form |-> "exp", x |-> fStat]

\* performANOVA (lines 75-119): Math.random() * 0.1 without the library or
\* with fewer than two groups.  analyzeData calls it (line 194) on groups
\* that are not empty, and never reads the value.
performANOVA(groups) ==
  IF ~ss \/ Len(groups) < 2
  THEN {[form |-> "p", x |-> r] : r \in RandomPValues}
  ELSE {ANOVAPValue(groups)}

\* Object.values(dataset.features) (line 168): every value is a number.
FeatureValues(features) == [j \in 1..Len(features) |-> features[j].value]

\* Lines 164-178: the values of a dataset, or one random value when it has
\* no numeric feature.
DatasetValues(dataset) ==
  IF Len(dataset.features) > 0
  THEN {[name |-> dataset.dataset, values |-> FeatureValues(dataset.features)]}
  ELSE {[name |-> dataset.dataset, values |-> <<r>>] : r \in RandomSamples}

\* The index pairs the loops of lines 197-198 (and 240-241) visit, in order.
RECURSIVE PairLoop(_, _, _)
PairLoop(i, j, k) ==
  IF i > k THEN <<>>
  ELSE IF j > k THEN PairLoop(i + 1, i + 2, k)
  ELSE <<<<i, j>>>> \o PairLoop(i, j + 1, k)

\* A faulty variant of the pairs below: the t-test also compares pairwise
\* when it is given more than two datasets.
ComparedPairsForAnyTest(test, k) == PairLoop(1, 2, k)

\* The pairs compared: lines 182-190 for the t-test, 192-208 for ANOVA.
ComparedPairs(test, k) ==
  IF test = "t-test" /\ k = 2 THEN <<<<1, 2>>>>
  ELSE IF test = "ANOVA" THEN PairLoop(1, 2, k)
  ELSE <<>>

\* A faulty variant: the two names swapped.
ComparisonLabelSwapped(a, b) == <<b.name, a.name>>

\* The label `${a.name} vs ${b.name}`.
ComparisonLabel(a, b) == <<a.name, b.name>>

\* The switch of lines 213-224: the arrays correctedPValues may be.
CorrectionOutcomes(method, pv) ==
  IF method = "Bonferroni" THEN {bonferroniCorrection(pv)}
  ELSE IF method = "Benjamini-Hochberg"
       THEN {benjaminiHochbergCorrection(pv, s) : s \in SortOutcomes(pv)}
       ELSE {pv}

\* Lines 227-229: result.corrected_p_value = correctedPValues[index] || p_value.
StoredCorrected(corrected, pv, index) ==
  OrElse(corrected[index], pv[index])

\* The result list built from the compared pairs and their raw p-values.
BuildResults(df, pairs, pv, corrected) ==
  [m \in 1..Len(pairs) |->
     [comparison |-> ComparisonLabel(df[pairs[m][1]], df[pairs[m][2]]),
      p_value |-> pv[m],
      corrected_p_value |-> StoredCorrected(corrected, pv, m)]]

\* The catch block (lines 233-252): one mock result per pair of datasets,
\* corrected_p_value = Math.min(1, pValue * results.length + 1).
MockResults(data, pv) ==
  LET pairs == PairLoop(1, 2, Len(data)) IN
  [m \in 1..Len(pairs) |->
     [comparison |-> <<data[pairs[m][1]].dataset, data[pairs[m][2]].dataset>>,
      p_value |-> pv[m],
      corrected_p_value |-> MathMin2(One, Plus(Times(pv[m], m - 1), One))]]

\* The try block runs to its return: the input has two datasets or more.
AnalyzeDataTry ==
  /\ outcome = "none"
  /\ \E data \in DataInputs, test \in StatisticalTests,
        method \in CorrectionMethods :
       /\ Len(data) >= 2
       /\ input' = [data |-> data, statisticalTest |-> test,
                    correctionMethod |-> method]
       /\ \E df \in SeqProduct([i \in 1..Len(data) |-> DatasetValues(data[i])]) :
            LET pairs == ComparedPairs(test, Len(df)) IN
            \E pv \in SeqProduct([m \in 1..Len(pairs) |->
                        performTTest(df[pairs[m][1]].values,
                                     df[pairs[m][2]].values)]) :
            \E corrected \in CorrectionOutcomes(method, pv) :
              /\ test = "ANOVA" =>
                   \E pValue \in performANOVA(
                        [i \in 1..Len(df) |-> df[i].values]) : TRUE
              /\ datasetFeatures' = df
              /\ rawP' = pv
              /\ correctedPValues' = corrected
              /\ results' = BuildResults(df, pairs, pv, corrected)
  /\ outcome' = "returned"
  /\ caught' = FALSE
  /\ UNCHANGED ss

\* Line 160 throws: the catch block builds the mock results and returns.
AnalyzeDataCatch ==
  /\ outcome = "none"
  /\ \E data \in DataInputs, test \in StatisticalTests,
        method \in CorrectionMethods :
       /\ Len(data) < 2
       /\ input' = [data |-> data, statisticalTest |-> test,
                    correctionMethod |-> method]
       /\ \E pv \in SeqProduct([m \in 1..Len(PairLoop(1, 2, Len(data))) |->
                                  MockPValues]) :
            results' = MockResults(data, pv)
  /\ datasetFeatures' = <<>>
  /\ rawP' = <<>>
  /\ correctedPValues' = <<>>
  /\ outcome' = "returned"
  /\ caught' = TRUE
  /\ UNCHANGED ss

AnalyzeData == AnalyzeDataTry \/ AnalyzeDataCatch

\* The caller is done with the returned promise; a next call may follow.
NextCall ==
  /\ outcome # "none"
  /\ outcome' = "none"
  /\ input' = [data |-> <<>>, statisticalTest |-> "t-test",
               correctionMethod |-> "None"]
  /\ datasetFeatures' = <<>>
  /\ rawP' = <<>>
  /\ correctedPValues' = <<>>
  /\ results' = <<>>
  /\ caught' = FALSE
  /\ UNCHANGED ss

(***************************************************************************)
(* cellposeSegmentation and performSegmentation (src/unnamed/part_003,     *)
(* lines 79-204).  OpenCV is a library outside the repository: an image is *)
(* given by what the library and the canvas make of it.                    *)
(***************************************************************************)
\* An image: whether the data URI decodes (dataURIToImage), whether the
\* OpenCV steps throw on it, how many contours cv.findContours reports for
\* it (line 116), and how many of its pixels are brighter than 128.
BrightPixelSamples == {0, 150, 250}
SegImages ==
  [decodes : BOOLEAN, cvThrows : BOOLEAN, contours : 0..MaxContours,
   brightPixels : BrightPixelSamples]

\* What new cv.Scalar(Math.random() * 255, Math.random() * 255,
\* Math.random() * 255, 128) of line 126 may be.
ColourSamples == {<<12, 200, 90, 128>>, <<240, 7, 33, 128>>}

\* Pixels one nucleus is taken to cover in the estimate of line 193.
PixelsPerNucleus == 100

Max2(a, b) == IF a > b THEN a ELSE b

\* performSegmentation (lines 79-154): the binary image converted to RGBA
\* with contour i filled in colours[i], and the count of contours.
performSegmentation(img, colours) ==
  [segmentationCanvas |-> [base |-> "binary", fill |-> colours],
   count |-> img.contours]

\* The results a call may settle with.
\*  - try (lines 157-173): the overlay of performSegmentation and its count;
\*  - catch (lines 174-203): the image decoded again, tinted red, and the
\*    count Math.max(1, Math.floor(brightPixels / 100));
\*  - an image that does not decode rejects in the catch block as well.
cellposeSegmentation(img) ==
  IF ~img.decodes THEN {[settled |-> "rejected"]}
  ELSE IF img.cvThrows
  THEN {[settled |-> "fulfilled",
         segmentationResult |-> [base |-> "original tinted red", fill |-> <<>>],
         nucleiCount |-> Max2(1, img.brightPixels \div PixelsPerNucleus)]}
  ELSE {[settled |-> "fulfilled",
         segmentationResult |->
           performSegmentation(img, colours).segmentationCanvas,
         nucleiCount |-> performSegmentation(img, colours).count] :
        colours \in [1..img.contours -> ColourSamples]}

\* One call on the image.
CellposeSegmentation ==
  /\ Len(segOutputs) < MaxRuns
  /\ \E out \in cellposeSegmentation(segImage) :
       segOutputs' = Append(segOutputs, out)
  /\ UNCHANGED segImage

SegIdle ==
  /\ segImage = [decodes |-> FALSE, cvThrows |-> FALSE, contours |-> 0,
                 brightPixels |-> 0]
  /\ segOutputs = <<>>

(***************************************************************************)
(* extractMorphometricFeatures and its helpers                             *)
(* (src/src/ai/flows/morphometric-feature-extraction.ts).  A pixel has the *)
(* index idx = y * width + x, from 0; an image gives the brightness        *)
(* (r + g + b) / 3 of each pixel.                                          *)
(***************************************************************************)
\* brightness > 128 makes a pixel white (line 91).
WhiteThreshold == 128
\* A component is kept when it has more pixels than this (line 121).
MinComponentSize == 50
\* Pixels one nucleus is taken to cover in the estimate of line 248.
MockPixelsPerNucleus == 100

\* isWhitePixel (lines 87-92).
isWhitePixel(img, x, y) ==
  IF x < 0 \/ x >= img.width \/ y < 0 \/ y >= img.height THEN FALSE
  ELSE img.data[y * img.width + x] > WhiteThreshold

\* A faulty variant of the turn below: the pixel below and to the right is
\* pushed as a fifth neighbour.
FloodStepDiagonal(img, st) ==
  IF st.stack = <<>> THEN st
  ELSE LET x == st.stack[Len(st.stack)][1]
           y == st.stack[Len(st.stack)][2]
           rest == SubSeq(st.stack, 1, Len(st.stack) - 1)
           idx == y * img.width + x
       IN IF \/ x < 0 \/ x >= img.width \/ y < 0 \/ y >= img.height
             \/ idx \in st.visited
             \/ ~isWhitePixel(img, x, y)
          THEN [st EXCEPT !.stack = rest]
          ELSE [stack |-> rest \o <<(<<x + 1, y>>), (<<x - 1, y>>),
                                    (<<x, y + 1>>), (<<x, y - 1>>),
                                    (<<x + 1, y + 1>>)>>,
                visited |-> st.visited \cup {idx},
                pixels |-> Append(st.pixels, idx)]

\* A faulty variant of the turn below: the pixel is recorded but not marked
\* as visited.
FloodStepWithoutMark(img, st) ==
  IF st.stack = <<>> THEN st
  ELSE LET x == st.stack[Len(st.stack)][1]
           y == st.stack[Len(st.stack)][2]
           rest == SubSeq(st.stack, 1, Len(st.stack) - 1)
           idx == y * img.width + x
       IN IF \/ x < 0 \/ x >= img.width \/ y < 0 \/ y >= img.height
             \/ idx \in st.visited
             \/ ~isWhitePixel(img, x, y)
          THEN [st EXCEPT !.stack = rest]
          ELSE [stack |-> rest \o <<(<<x + 1, y>>), (<<x - 1, y>>),
                                    (<<x, y + 1>>), (<<x, y - 1>>)>>,
                visited |-> st.visited,
                pixels |-> Append(st.pixels, idx)]

\* One turn of the while loop of floodFill (lines 97-111) on the state
\* [stack, visited, pixels]: pop, skip or record, push the four neighbours.
\* With the stack empty the loop is over and the state stays.
FloodStep(img, st) ==
  IF st.stack = <<>> THEN st
  ELSE LET x == st.stack[Len(st.stack)][1]
           y == st.stack[Len(st.stack)][2]
           rest == SubSeq(st.stack, 1, Len(st.stack) - 1)
           idx == y * img.width + x
       IN IF \/ x < 0 \/ x >= img.width \/ y < 0 \/ y >= img.height
             \/ idx \in st.visited
             \/ ~isWhitePixel(img, x, y)
          THEN [st EXCEPT !.stack = rest]
          ELSE [stack |-> rest \o <<(<<x + 1, y>>), (<<x - 1, y>>),
                                    (<<x, y + 1>>), (<<x, y - 1>>)>>,
                visited |-> st.visited \cup {idx},
                pixels |-> Append(st.pixels, idx)]

\* The while loop of lines 97-111, cut off after n turns: a first half of the
\* turns, and the rest of them while the stack has entries.
RECURSIVE FloodLoop(_, _, _)
FloodLoop(img, st, n) ==
  IF n = 0 \/ st.stack = <<>> THEN st
  ELSE IF n = 1 THEN FloodStep(img, st)
  ELSE LET half == FloodLoop(img, st, n \div 2) IN
       IF half.stack = <<>> THEN half
       ELSE FloodLoop(img, half, n - n \div 2)

\* The loop pops one entry a turn and pushes four for each pixel it records,
\* and records a pixel once: it is over within 4 * pixels + 1 turns.
FloodTurns(img) == 4 * img.width * img.height + 1

\* floodFill (lines 94-114).  Returns the pixels of the component in the
\* order they were recorded, and the visited set.
floodFill(img, visited, startX, startY) ==
  FloodLoop(img,
            [stack |-> <<(<<startX, startY>>)>>, visited |-> visited,
             pixels |-> <<>>],
            FloodTurns(img))

\* The size filter of line 121.
KeepComponent(component) == Len(component) > MinComponentSize

\* The body of the scan of lines 116-127 at pixel idx, on the state
\* [visited, components, fills]: fills lists the component of line 120 of
\* every floodFill call, kept or not, and whether the call's stack was empty
\* when its loop was over.
ScanStep(img, st, idx) ==
  LET x == idx % img.width
      y == idx \div img.width
  IN IF idx \notin st.visited /\ isWhitePixel(img, x, y)
     THEN LET filled == floodFill(img, st.visited, x, y) IN
          [visited |-> filled.visited,
           components |-> IF KeepComponent(filled.pixels)
                          THEN Append(st.components, filled.pixels)
                          ELSE st.components,
           fills |-> Append(st.fills, [pixels |-> filled.pixels,
                                       drained |-> filled.stack = <<>>])]
     ELSE st

\* The scan over the pixels lo..hi in index order: row by row, left to right.
\* Once every pixel is visited the rest of the scan changes nothing.
RECURSIVE ScanLoop(_, _, _, _)
ScanLoop(img, st, lo, hi) ==
  IF lo > hi THEN st
  ELSE IF lo = hi THEN ScanStep(img, st, lo)
  ELSE LET mid == (lo + hi) \div 2
           first == ScanLoop(img, st, lo, mid)
       IN IF Cardinality(first.visited) = img.width * img.height THEN first
          ELSE ScanLoop(img, first, mid + 1, hi)

\* The scan of lines 116-127 over the whole image.
ScanImage(img) ==
  ScanLoop(img, [visited |-> {}, components |-> <<>>, fills |-> <<>>],
           0, img.width * img.height - 1)

\* findConnectedComponents (lines 79-130).
findConnectedComponents(img) == ScanImage(img).components

\* calculateArea (lines 135-137).
calculateArea(component) == Len(component)

\* A faulty variant of the count below: only the neighbours above and below
\* are looked at.
calculatePerimeterRowsOnly(component, width, height) ==
  LET pixelSet == {component[i] : i \in DOMAIN component}
      neighbors(idx) ==
        LET x == idx % width
            y == idx \div width
        IN {(y - 1) * width + x, (y + 1) * width + x}
  IN Cardinality({i \in DOMAIN component :
                    \E n \in neighbors(component[i]) : n \notin pixelSet})

\* calculatePerimeter (lines 142-167): the pixels of the component with one
\* of the four neighbour indices outside the component's index set.
calculatePerimeter(component, width, height) ==
  LET pixelSet == {component[i] : i \in DOMAIN component}
      neighbors(idx) ==
        LET x == idx % width
            y == idx \div width
        IN {(y - 1) * width + x, (y + 1) * width + x,
            y * width + (x - 1), y * width + (x + 1)}
  IN Cardinality({i \in DOMAIN component :
                    \E n \in neighbors(component[i]) : n \notin pixelSet})

\* Math.PI lies strictly between PiNum/PiDen and the next convergent of its
\* continued fraction, 104348/33215; no fraction with a denominator below
\* 66317 lies between the two, so for 4 * area below that bound
\* 4 * PI * area >= perimeter^2 exactly when
\* PiNum/PiDen >= perimeter^2 / (4 * area).
PiNum == 103993
PiDen == 33102

\* calculateCircularity (lines 172-175).  The value is q (unit "1") or
\* q * PI (unit "pi") for a fraction q.
calculateCircularity(area, perimeter) ==
  IF perimeter = 0 THEN [unit |-> "1", q |-> Zero]
  ELSE [unit |-> "pi", q |-> Num(4 * area, perimeter * perimeter)]

\* A faulty variant of the clamp below: Math.max(0, circularity) alone.
ClampCircularityFromBelowOnly(c) == c

\* Line 226: Math.min(1, Math.max(0, circularity)).  No circularity is
\* negative; q * PI >= 1 is decided as PiNum/PiDen >= 1/q.
ClampCircularity(c) ==
  IF c.unit = "pi" /\ PiNum * c.q[1] >= PiDen * c.q[2]
  THEN [unit |-> "1", q |-> One]
  ELSE c

\* Lines 185-189: the sum of the brightness the image has at the pixels
\* lo..hi of the component, added in that order.  An index outside the image
\* data reads undefined: NaN.
RECURSIVE TotalIntensity(_, _, _, _)
TotalIntensity(component, img, lo, hi) ==
  IF lo > hi THEN Zero
  ELSE IF lo = hi
       THEN IF component[lo] \in DOMAIN img.data
            THEN Num(img.data[component[lo]], 1) ELSE NaN
  ELSE LET mid == (lo + hi) \div 2 IN
       Plus(TotalIntensity(component, img, lo, mid),
            TotalIntensity(component, img, mid + 1, hi))

\* calculateMeanIntensity (lines 180-192).
calculateMeanIntensity(component, originalImageData) ==
  Over(TotalIntensity(component, originalImageData, 1, Len(component)),
       Len(component))

\* A faulty variant of the records below: ids from 0, the array index.
ComponentFeaturesFromZero(components, segmentationImageData, originalImageData) ==
  [index \in 1..Len(components) |->
     LET component == components[index]
         area == calculateArea(component)
         perimeter == calculatePerimeter(component,
                        segmentationImageData.width,
                        segmentationImageData.height)
     IN [nucleusId |-> index - 1,
         area |-> area,
         perimeter |-> perimeter,
         circularity |->
           ClampCircularity(calculateCircularity(area, perimeter)),
         meanIntensity |->
           calculateMeanIntensity(component, originalImageData)]]

\* Lines 216-229: one feature record per component.
ComponentFeatures(components, segmentationImageData, originalImageData) ==
  [index \in 1..Len(components) |->
     LET component == components[index]
         area == calculateArea(component)
         perimeter == calculatePerimeter(component,
                        segmentationImageData.width,
                        segmentationImageData.height)
     IN [nucleusId |-> index,
         area |-> area,
         perimeter |-> perimeter,
         circularity |->
           ClampCircularity(calculateCircularity(area, perimeter)),
         meanIntensity |->
           calculateMeanIntensity(component, originalImageData)]]

\* What the Math.random() expressions of lines 251-254 may give.
MockFeatureSamples ==
  {[area |-> 100, perimeter |-> 40,
    circularity |-> [unit |-> "1", q |-> Num(6, 10)],
    meanIntensity |-> Num(5000, 1)],
   [area |-> 480, perimeter |-> 119,
    circularity |-> [unit |-> "1", q |-> Num(9, 10)],
    meanIntensity |-> Num(14000, 1)]}

\* Lines 242-248: Math.max(1, Math.floor(brightPixels / 100)).
EstimatedNuclei(img) ==
  Max2(1, Cardinality({idx \in DOMAIN img.data :
                         img.data[idx] > WhiteThreshold})
          \div MockPixelsPerNucleus)

\* Lines 249-255: the mock records the catch block may build.
MockFeatures(img) ==
  {[i \in 1..EstimatedNuclei(img) |->
      [nucleusId |-> i, area |-> f[i].area, perimeter |-> f[i].perimeter,
       circularity |-> f[i].circularity,
       meanIntensity |-> f[i].meanIntensity]] :
   f \in [1..EstimatedNuclei(img) -> MockFeatureSamples]}

\* Images of the model, all of GridW x GridH pixels.  decodes tells whether
\* dataURIToImage resolves for the data URI.
ImageOf(data) == [width |-> GridW, height |-> GridH, data |-> data]
PixelX(idx) == idx % GridW
PixelY(idx) == idx \div GridW
Pixels == 0..(GridW * GridH - 1)

\* Pixel idx lies in the rectangle r = <<x0, x1, y0, y1>>.
InRectangle(idx, r) ==
  /\ r[1] <= PixelX(idx) /\ PixelX(idx) <= r[2]
  /\ r[3] <= PixelY(idx) /\ PixelY(idx) <= r[4]

\* A black image with one rectangle of pixels of one brightness.
RectangleImage(x0, x1, y0, y1, level) ==
  ImageOf([idx \in Pixels |->
             IF InRectangle(idx, <<x0, x1, y0, y1>>) THEN level ELSE 0])
\* Rectangles that start in the first two columns and rows; those with
\* x1 < x0 or y1 < y0 are empty and leave the image black.
AnchoredRectangles ==
  {RectangleImage(x0, x1, y0, y1, 255) :
     x0 \in 0..1, x1 \in 0..(GridW - 1), y0 \in 0..1, y1 \in 0..(GridH - 1)}

\* A black image with a block at brightness 255 in the left half and a block
\* at brightness 128 or 255 in the right half.  The two blocks may touch
\* along a column, touch at a corner only, or stay apart.
MaskLevels == {128, 255}
TwoBlockImage(left, right, level) ==
  ImageOf([idx \in Pixels |->
             IF InRectangle(idx, left) THEN 255
             ELSE IF InRectangle(idx, right) THEN level ELSE 0])
LeftBlocks ==
  {<<x0, x1, y0, y1>> :
     x0 \in 0..1, x1 \in (GridW \div 2 - 2)..(GridW \div 2 - 1),
     y0 \in 0..1, y1 \in (GridH - 2)..(GridH - 1)}
RightBlocks ==
  {r \in {<<x0, x1, y0, y1>> :
            x0 \in (GridW \div 2)..(GridW \div 2 + 1),
            x1 \in (GridW - 2)..(GridW - 1),
            y0 \in {0, 1, GridH - 1}, y1 \in (GridH - 2)..(GridH - 1)} :
     r[3] <= r[4]}
TwoBlockImages ==
  {TwoBlockImage(left, right, level) :
     left \in LeftBlocks, right \in RightBlocks, level \in MaskLevels}

\* The first n pixels in row-major order at brightness 255, for n around the
\* size filter of line 121.
PrefixImage(n) == ImageOf([idx \in Pixels |-> IF idx < n THEN 255 ELSE 0])
PrefixImages ==
  {PrefixImage(n) : n \in (MinComponentSize - 1)..(MinComponentSize + 1)}

MaskImages == AnchoredRectangles \cup TwoBlockImages \cup PrefixImages

\* An image of w x h pixels that brightens to the right.
GradientImage(w, h) ==
  [width |-> w, height |-> h,
   data |-> [idx \in 0..(w * h - 1) |-> 10 * (idx % w)]]
\* Intensity images one column narrower and one column wider than the mask:
\* each image is drawn to a canvas of its own size (lines 59-66).
MismatchedImages ==
  {GradientImage(GridW - 1, GridH), GradientImage(GridW + 1, GridH)}

\* An intensity image is uniform or brightens to the right.
IntensityImages ==
  {ImageOf([idx \in Pixels |-> 200]), GradientImage(GridW, GridH)}
  \cup MismatchedImages
ExtractionInputs ==
  [image : IntensityImages, imageDecodes : BOOLEAN,
   segmentation : MaskImages, segmentationDecodes : BOOLEAN]

\* A faulty variant of the action below: the flood fill marks a pixel as
\* visited by writing 0 into the mask.
ExtractFeaturesTryErasing ==
  /\ exResult.settled = "none"
  /\ exInput.imageDecodes /\ exInput.segmentationDecodes
  /\ LET components == findConnectedComponents(exInput.segmentation)
         filled == UNION {{c[i] : i \in DOMAIN c} :
                            c \in {components[k] : k \in DOMAIN components}}
     IN
     /\ exComponents' = components
     /\ exFills' = ScanImage(exInput.segmentation).fills
     /\ exResult' =
          [settled |-> "fulfilled",
           features |-> ComponentFeatures(components, exInput.segmentation,
                                          exInput.image)]
     /\ exInput' =
          [exInput EXCEPT !.segmentation.data =
             [idx \in DOMAIN @ |-> IF idx \in filled THEN 0 ELSE @[idx]]]
  /\ exCaught' = FALSE

\* The try block runs to its return (lines 197-231): both images decode.
\* No statement of lines 79-231 assigns to the data of an image or, once
\* floodFill has returned it, to a component.
ExtractFeaturesTry ==
  /\ exResult.settled = "none"
  /\ exInput.imageDecodes /\ exInput.segmentationDecodes
  /\ LET components == findConnectedComponents(exInput.segmentation) IN
     /\ exComponents' = components
     /\ exFills' = ScanImage(exInput.segmentation).fills
     /\ exResult' =
          [settled |-> "fulfilled",
           features |-> ComponentFeatures(components, exInput.segmentation,
                                          exInput.image)]
  /\ exCaught' = FALSE
  /\ UNCHANGED exInput

\* Promise.all of line 199 rejects and the catch block (lines 233-258) runs:
\* it decodes the mask again and returns mock features, or rejects when the
\* mask does not decode.
ExtractFeaturesCatch ==
  /\ exResult.settled = "none"
  /\ ~(exInput.imageDecodes /\ exInput.segmentationDecodes)
  /\ IF exInput.segmentationDecodes
     THEN \E features \in MockFeatures(exInput.segmentation) :
            exResult' = [settled |-> "fulfilled", features |-> features]
     ELSE exResult' = [settled |-> "rejected", features |-> <<>>]
  /\ exCaught' = TRUE
  /\ UNCHANGED <<exInput, exComponents, exFills>>

\* The caller is done with the settled promise and may call again with the
\* same input.
NextExtraction ==
  /\ exResult.settled # "none"
  /\ exResult' = [settled |-> "none", features |-> <<>>]
  /\ exComponents' = <<>>
  /\ exFills' = <<>>
  /\ exCaught' = FALSE
  /\ UNCHANGED exInput

\* No call of extractMorphometricFeatures is under way.
ExNotCalled ==
  /\ exComponents = <<>>
  /\ exFills = <<>>
  /\ exResult = [settled |-> "none", features |-> <<>>]
  /\ exCaught = FALSE

ExIdle ==
  /\ exInput = [image |-> RectangleImage(0, 0, 0, 0, 0),
                imageDecodes |-> FALSE,
                segmentation |-> RectangleImage(0, 0, 0, 0, 0),
                segmentationDecodes |-> FALSE]
  /\ ExNotCalled

(***************************************************************************)
(* The application state (src/src/context/app-context.tsx) and the data    *)
(* input tab (src/src/components/tabs/data-input-tab.tsx).  A dataset is   *)
(* [id, name, images]; an image is [id, file, seg, features].              *)
(***************************************************************************)
\* Dataset names the user or the .nd files give.
DatasetNames == {"A", "B"}

\* The tabs of MainContent, in the order of their triggers.
Tabs == {"data-input", "segmentation", "analysis", "visualization", "export"}

\* No handleFolderChange, handleRunSegmentation call is in flight.
NoFolder == [active |-> FALSE, closure |-> <<>>, queue |-> <<>>]
NoSegRun ==
  [phase |-> "idle", allImages |-> <<>>, imagesProcessed |-> 0,
   attempted |-> <<>>, failed |-> {}, progress |-> Zero, isLoading |-> FALSE]

\* The images addDataset builds for n files (lines 19-23): ids first + 1 to
\* first + n.
NewImages(first, n) ==
  [k \in 1..n |-> [id |-> first + k, file |-> "decodes", seg |-> "none",
                   features |-> "undefined"]]

\* findIndex of line 25, from 1; 0 when no dataset has the name.
FindIndexByName(list, name) ==
  IF \E i \in DOMAIN list : list[i].name = name
  THEN CHOOSE i \in DOMAIN list :
         /\ list[i].name = name
         /\ \A j \in 1..(i - 1) : list[j].name # name
  ELSE 0

\* addDataset (lines 18-49), called with the datasets its closure holds, on
\* the state prev the updater receives.  With the name found in the closure
\* the updater of lines 29-36 reads the undeclared existingDatasetindex
\* (line 32) and throws a ReferenceError; otherwise a dataset is appended.
addDataset(closure, prev, name, n, first) ==
  IF FindIndexByName(closure, name) > 0
  THEN [threw |-> TRUE, datasets |-> prev]
  ELSE [threw |-> FALSE,
        datasets |-> Append(prev, [id |-> first + n + 1, name |-> name,
                                   images |-> NewImages(first, n)])]

\* isDataInputComplete, isSegmentationComplete, isAnalysisComplete of
\* MainContent (app-context.tsx lines 135-149).
isDataInputComplete(ds) ==
  Len(ds) > 0 /\ \E d \in DOMAIN ds : Len(ds[d].images) > 0
isSegmentationComplete(ds) ==
  /\ isDataInputComplete(ds)
  /\ \A d \in DOMAIN ds : \A i \in DOMAIN ds[d].images :
       ds[d].images[i].seg # "none"
isAnalysisComplete(ds) ==
  /\ isSegmentationComplete(ds)
  /\ \A d \in DOMAIN ds : \A i \in DOMAIN ds[d].images :
       ds[d].images[i].features = "some"

\* The trigger of the tab is not disabled (lines 155-169).
TabEnabled(tab, ds) ==
  CASE tab = "data-input" -> TRUE
    [] tab = "segmentation" -> isDataInputComplete(ds)
    [] tab = "analysis" -> isSegmentationComplete(ds)
    [] OTHER -> isAnalysisComplete(ds)

\* The user clicks the trigger of another tab (onValueChange, line 153).
SelectTab ==
  /\ ~appCrashed
  /\ \E tab \in Tabs :
       /\ tab # activeTab
       /\ TabEnabled(tab, datasets)
       /\ activeTab' = tab
  /\ UNCHANGED <<datasets, appCrashed, nextId, folder, segRun, exRuns,
                 effectDue>>

\* handleSubmit (data-input-tab.tsx lines 203-232) with a name and n files:
\* addDataset with the datasets of the current render, then
\* setActiveTab('segmentation').  A throwing updater takes the tree down
\* and no update is applied.
HandleSubmit ==
  /\ ~appCrashed
  /\ activeTab = "data-input"
  /\ Len(datasets) < MaxAppDatasets
  /\ \E name \in DatasetNames, n \in 1..MaxFiles :
       LET added == addDataset(datasets, datasets, name, n, nextId) IN
       IF added.threw
       THEN /\ appCrashed' = TRUE
            /\ UNCHANGED <<datasets, activeTab, nextId>>
       ELSE /\ datasets' = added.datasets
            /\ activeTab' = "segmentation"
            /\ nextId' = nextId + n + 1
            /\ appCrashed' = FALSE
  /\ UNCHANGED <<folder, segRun, exRuns, effectDue>>

\* What scanFolderForNDFiles may return (line 132): one or two .nd files,
\* each with the name of its dataset and whether the loop body reaches
\* addDataset with one file ("files"), finds no file of the .nd file among
\* the images ("nofiles") or throws while parsing ("error").
NDResults ==
  UNION {[1..k -> [datasetName : DatasetNames,
                   outcome : {"files", "nofiles", "error"}]] : k \in 1..2}

\* handleFolderChange up to its first await (lines 143-150): the handler
\* holds the addDataset of the render it was created in, and so the datasets
\* of that render.
HandleFolderChange ==
  /\ ~appCrashed
  /\ activeTab = "data-input"
  /\ ~folder.active
  /\ \E ndResults \in NDResults :
       folder' = [active |-> TRUE, closure |-> datasets,
                  queue |-> ndResults]
  /\ UNCHANGED <<datasets, activeTab, appCrashed, nextId, segRun, exRuns,
                 effectDue>>

\* One turn of the loop of lines 146-184, after its awaits, and after the
\* last turn setActiveTab('segmentation') (lines 186-188).
FolderStep ==
  /\ ~appCrashed
  /\ folder.active
  /\ LET ndResult == folder.queue[1]
         last == Len(folder.queue) = 1
         adds == ndResult.outcome = "files" /\ Len(datasets) < MaxAppDatasets
         added == addDataset(folder.closure, datasets, ndResult.datasetName,
                             1, nextId)
     IN
     IF adds /\ added.threw
     THEN /\ appCrashed' = TRUE
          /\ UNCHANGED <<datasets, activeTab, nextId, folder>>
     ELSE /\ datasets' = IF adds THEN added.datasets ELSE datasets
          /\ nextId' = IF adds THEN nextId + 2 ELSE nextId
          /\ activeTab' = IF last THEN "segmentation" ELSE activeTab
          /\ folder' = IF last THEN NoFolder
                       ELSE [folder EXCEPT !.queue = Tail(@)]
          /\ appCrashed' = FALSE
  /\ UNCHANGED <<segRun, exRuns, effectDue>>

\* initialState (lines 9-13), with no handler in flight.
AppIdle ==
  /\ datasets = <<>>
  /\ activeTab = "data-input"
  /\ appCrashed = FALSE
  /\ nextId = 0
  /\ folder = NoFolder
  /\ segRun = NoSegRun
  /\ exRuns = <<>>
  /\ effectDue = FALSE

(***************************************************************************)
(* The automatic feature extraction of AnalysisTab (src/unnamed/part_005). *)
(* The seg field of an image tells what its segmentationResult holds:      *)
(* "none" (undefined), "mask" (a mask with nuclei), "mask0" (a mask        *)
(* without a component and nucleiCount 0) or "badmask" (a data URI that    *)
(* does not decode, with which extractMorphometricFeatures rejects at line *)
(* 237 of morphometric-feature-extraction.ts).                             *)
(***************************************************************************)
\* allImages / segmentedImages (lines 26-27): <<datasetId, image>> pairs in
\* dataset order, then image order.
RECURSIVE AllImages(_)
AllImages(ds) ==
  IF ds = <<>> THEN <<>>
  ELSE [i \in DOMAIN ds[1].images |-> <<ds[1].id, ds[1].images[i]>>]
       \o AllImages(Tail(ds))
SegmentedImages(ds) == SelectSeq(AllImages(ds), LAMBDA e : e[2].seg # "none")

\* updateImage (app-context.tsx lines 51-65) on the state prev.
updateImage(prev, datasetId, imageId, field, value) ==
  [d \in DOMAIN prev |->
     IF prev[d].id = datasetId
     THEN [prev[d] EXCEPT !.images =
             [i \in DOMAIN @ |->
                IF @[i].id = imageId
                THEN IF field = "features" THEN [@[i] EXCEPT !.features = value]
                     ELSE [@[i] EXCEPT !.seg = value]
                ELSE @[i]]]
     ELSE prev[d]]

\* shouldRun of line 70.
ShouldRun(ds) ==
  /\ Len(SegmentedImages(ds)) > 0
  /\ \E k \in DOMAIN SegmentedImages(ds) :
       SegmentedImages(ds)[k][2].features = "undefined"

\* The effect of lines 69-75, which React runs after a render in which
\* datasets changed, and runFeatureExtraction up to its first await (lines
\* 29-36).
AnalysisEffect ==
  /\ ~appCrashed
  /\ activeTab = "analysis"
  /\ effectDue
  /\ ShouldRun(datasets) => Len(exRuns) < MaxExRuns
  /\ effectDue' = FALSE
  /\ exRuns' = IF ShouldRun(datasets)
               THEN Append(exRuns, [images |-> SegmentedImages(datasets),
                                    pos |-> 1])
               ELSE exRuns
  /\ UNCHANGED <<datasets, activeTab, appCrashed, nextId, folder, segRun>>

\* What lines 36-52 store for an image whose mask is seg: the features of
\* the result, or nucleiCount mock features when the result has none.
StoredFeatures(seg) == IF seg = "mask0" THEN "empty" ELSE "some"

\* One turn of the loop of lines 34-63 in run r, from the settling of the
\* awaited extractMorphometricFeatures to the next await, or to the end of
\* the run (lines 64-65).
ExtractionStep(r) ==
  /\ ~appCrashed
  /\ r \in DOMAIN exRuns
  /\ LET run == exRuns[r]
         image == run.images[run.pos]
         rejects == image[2].seg = "badmask"
         ends == run.pos = Len(run.images)
     IN
     /\ datasets' =
          IF rejects THEN datasets
          ELSE updateImage(datasets, image[1], image[2].id, "features",
                           StoredFeatures(image[2].seg))
     /\ effectDue' = IF rejects THEN effectDue ELSE TRUE
     /\ exRuns' =
          IF ends
          THEN SubSeq(exRuns, 1, r - 1) \o SubSeq(exRuns, r + 1, Len(exRuns))
          ELSE [exRuns EXCEPT ![r].pos = @ + 1]
  /\ UNCHANGED <<activeTab, appCrashed, nextId, folder, segRun>>

\* The datasets with which the analysis tab is entered: one dataset of up to
\* MaxAutoImages images without features.
AutoDatasets ==
  {<<[id |-> 0, name |-> "A",
      images |-> [i \in DOMAIN segs |->
                    [id |-> i, file |-> "decodes", seg |-> segs[i],
                     features |-> "undefined"]]]>> :
     segs \in UNION {[1..n -> {"none", "mask", "mask0", "badmask"}] :
                       n \in 1..MaxAutoImages}}

(***************************************************************************)
(* handleRunSegmentation of SegmentationTab (src/unnamed/part_004).        *)
(***************************************************************************)
\* handleRunSegmentation up to its first await (lines 25-34).  The button
\* is disabled while isLoading or without images (line 100): one run at a
\* time.  progress and isLoading of segRun are the values the run has passed
\* last to setProgress and setIsLoading.
HandleRunSegmentation ==
  /\ ~appCrashed
  /\ activeTab = "segmentation"
  /\ segRun.phase # "running"
  /\ Len(AllImages(datasets)) > 0
  /\ segRun' = [phase |-> "running", allImages |-> AllImages(datasets),
                imagesProcessed |-> 0, attempted |-> <<>>, failed |-> {},
                progress |-> Zero, isLoading |-> TRUE]
  /\ UNCHANGED <<datasets, activeTab, appCrashed, nextId, folder, exRuns,
                 effectDue>>

\* A faulty variant of the turn below: a failure ends the run.
SegmentationStepStopsOnFailure ==
  /\ ~appCrashed
  /\ segRun.phase = "running"
  /\ \E resolves \in BOOLEAN :
       LET image == segRun.allImages[segRun.imagesProcessed + 1]
           imagesProcessed == segRun.imagesProcessed + 1
           totalImages == Len(segRun.allImages)
           last == imagesProcessed = totalImages \/ ~resolves
       IN
       /\ datasets' =
            IF resolves
            THEN updateImage(datasets, image[1], image[2].id, "seg", "mask")
            ELSE datasets
       /\ effectDue' = IF resolves THEN TRUE ELSE effectDue
       /\ segRun' =
            [segRun EXCEPT
               !.phase = IF last THEN "ended" ELSE "running",
               !.imagesProcessed = imagesProcessed,
               !.attempted = Append(@, image[2].id),
               !.failed = IF resolves THEN @ ELSE @ \cup {image[2].id},
               !.progress = Num(imagesProcessed * 100, totalImages),
               !.isLoading = ~last]
       /\ activeTab' = IF last THEN "analysis" ELSE activeTab
  /\ UNCHANGED <<appCrashed, nextId, folder, exRuns>>

\* One turn of the loop of lines 32-57, from the settling of the awaited
\* cellposeSegmentation to the next await, or to the end of the run (lines
\* 59-64).  The call resolves (and line 45 stores a result) or rejects.
SegmentationStep ==
  /\ ~appCrashed
  /\ segRun.phase = "running"
  /\ \E resolves \in BOOLEAN :
       LET image == segRun.allImages[segRun.imagesProcessed + 1]
           imagesProcessed == segRun.imagesProcessed + 1
           totalImages == Len(segRun.allImages)
           last == imagesProcessed = totalImages
       IN
       /\ datasets' =
            IF resolves
            THEN updateImage(datasets, image[1], image[2].id, "seg", "mask")
            ELSE datasets
       /\ effectDue' = IF resolves THEN TRUE ELSE effectDue
       /\ segRun' =
            [segRun EXCEPT
               !.phase = IF last THEN "ended" ELSE "running",
               !.imagesProcessed = imagesProcessed,
               !.attempted = Append(@, image[2].id),
               !.failed = IF resolves THEN @ ELSE @ \cup {image[2].id},
               !.progress = Num(imagesProcessed * 100, totalImages),
               !.isLoading = ~last]
       /\ activeTab' = IF last THEN "analysis" ELSE activeTab
  /\ UNCHANGED <<appCrashed, nextId, folder, exRuns>>

\* The datasets with which the segmentation tab is entered: one or two
\* datasets of 1 to MaxFiles images; an image may hold the result of an
\* earlier run ("mask0").  Image k of dataset d has the id 10 * d + k.
SegRunDatasets ==
  {[d \in DOMAIN segs |->
      [id |-> d, name |-> IF d = 1 THEN "A" ELSE "B",
       images |-> [k \in DOMAIN segs[d] |->
                     [id |-> 10 * d + k, file |-> "decodes",
                      seg |-> segs[d][k], features |-> "undefined"]]]] :
     segs \in UNION {[1..n -> UNION {[1..m -> {"none", "mask0"}] :
                                       m \in 1..MaxFiles}] : n \in 1..2}}

\* No circularity is computed yet.
NoCircularity == [unit |-> "none", q |-> Zero]

\* Lines 219 and 226 applied to the area and the perimeter of one component:
\* calculateCircularity, then the clamp.
RecordCircularity ==
  /\ ccCircularity = NoCircularity
  /\ ccCircularity' =
       ClampCircularity(calculateCircularity(ccArea, ccPerimeter))
  /\ UNCHANGED <<ccArea, ccPerimeter>>

CircIdle ==
  /\ ccArea = 0
  /\ ccPerimeter = 0
  /\ ccCircularity = NoCircularity

StatIdle ==
  /\ input = [data |-> <<>>, statisticalTest |-> "t-test",
              correctionMethod |-> "None"]
  /\ datasetFeatures = <<>>
  /\ rawP = <<>>
  /\ correctedPValues = <<>>
  /\ results = <<>>
  /\ outcome = "none"
  /\ caught = FALSE

CorrIdle ==
  /\ pValues = <<>>
  /\ correctedP = <<>>
  /\ cpc = "input"

(***************************************************************************)
(* Specifications.                                                         *)
(***************************************************************************)
\* analyzeData, called again and again.
Init ==
  /\ ss \in BOOLEAN
  /\ StatIdle
  /\ CorrIdle
  /\ SegIdle
  /\ ExIdle
  /\ CircIdle
  /\ AppIdle

Next ==
  \/ AnalyzeDataTry /\ UNCHANGED <<corrVars, segVars, exVars, circVars, appVars>>
  \/ AnalyzeDataCatch /\ UNCHANGED <<corrVars, segVars, exVars, circVars, appVars>>
  \/ NextCall /\ UNCHANGED <<corrVars, segVars, exVars, circVars, appVars>>

Spec == Init /\ [][Next]_vars

\* benjaminiHochbergCorrection applied to a list of p-values.
InitBH ==
  /\ ss = TRUE
  /\ StatIdle
  /\ CorrInit
  /\ SegIdle
  /\ ExIdle
  /\ CircIdle
  /\ AppIdle

NextBH == ApplyBenjaminiHochberg /\ UNCHANGED <<statVars, segVars, exVars, circVars, appVars>>

SpecBH == InitBH /\ [][NextBH]_vars

\* cellposeSegmentation called up to MaxRuns times on one image.
InitSeg ==
  /\ ss = TRUE
  /\ StatIdle
  /\ CorrIdle
  /\ segImage \in SegImages
  /\ segOutputs = <<>>
  /\ ExIdle
  /\ CircIdle
  /\ AppIdle

NextSeg == CellposeSegmentation /\ UNCHANGED <<statVars, corrVars, exVars, circVars, appVars>>

SpecSeg == InitSeg /\ [][NextSeg]_vars

\* extractMorphometricFeatures, called again and again.
InitExtract ==
  /\ ss = TRUE
  /\ StatIdle
  /\ CorrIdle
  /\ SegIdle
  /\ exInput \in ExtractionInputs
  /\ ExNotCalled
  /\ CircIdle
  /\ AppIdle

NextExtract ==
  \/ ExtractFeaturesTry /\ UNCHANGED <<statVars, corrVars, segVars, circVars, appVars>>
  \/ ExtractFeaturesCatch /\ UNCHANGED <<statVars, corrVars, segVars, circVars, appVars>>
  \/ NextExtraction /\ UNCHANGED <<statVars, corrVars, segVars, circVars, appVars>>

SpecExtract == InitExtract /\ [][NextExtract]_vars

\* The circularity of a record, for every area and perimeter a component of
\* a GridW x GridH image can have, and for the empty component.
InitCirc ==
  /\ ss = TRUE
  /\ StatIdle
  /\ CorrIdle
  /\ SegIdle
  /\ ExIdle
  /\ ccArea \in 0..(GridW * GridH)
  /\ ccPerimeter \in 0..(GridW * GridH)
  /\ ccCircularity = NoCircularity
  /\ AppIdle

NextCirc ==
  RecordCircularity
    /\ UNCHANGED <<statVars, corrVars, segVars, exVars, appVars>>

SpecCirc == InitCirc /\ [][NextCirc]_vars

\* The data input tab: datasets are added by handleSubmit and by
\* handleFolderChange, and the user moves between the enabled tabs.
InitData ==
  /\ ss = TRUE
  /\ StatIdle
  /\ CorrIdle
  /\ SegIdle
  /\ ExIdle
  /\ CircIdle
  /\ AppIdle

NextData ==
  \/ HandleSubmit /\ UNCHANGED <<statVars, corrVars, segVars, exVars, circVars>>
  \/ HandleFolderChange /\ UNCHANGED <<statVars, corrVars, segVars, exVars, circVars>>
  \/ FolderStep /\ UNCHANGED <<statVars, corrVars, segVars, exVars, circVars>>
  \/ SelectTab /\ UNCHANGED <<statVars, corrVars, segVars, exVars, circVars>>

SpecData == InitData /\ [][NextData]_vars

\* The segmentation tab: handleRunSegmentation runs over the images, and the
\* user moves between the enabled tabs.
InitSegRun ==
  /\ ss = TRUE
  /\ StatIdle
  /\ CorrIdle
  /\ SegIdle
  /\ ExIdle
  /\ CircIdle
  /\ datasets \in SegRunDatasets
  /\ activeTab = "segmentation"
  /\ appCrashed = FALSE
  /\ nextId = 0
  /\ folder = NoFolder
  /\ segRun = NoSegRun
  /\ exRuns = <<>>
  /\ effectDue = FALSE

NextSegRun ==
  \/ HandleRunSegmentation /\ UNCHANGED <<statVars, corrVars, segVars, exVars, circVars>>
  \/ SegmentationStep /\ UNCHANGED <<statVars, corrVars, segVars, exVars, circVars>>
  \/ SelectTab /\ UNCHANGED <<statVars, corrVars, segVars, exVars, circVars>>

SpecSegRun == InitSegRun /\ [][NextSegRun]_vars

\* The analysis tab is mounted (its effect is due) and extracts features on
\* its own.
InitAuto ==
  /\ ss = TRUE
  /\ StatIdle
  /\ CorrIdle
  /\ SegIdle
  /\ ExIdle
  /\ CircIdle
  /\ datasets \in AutoDatasets
  /\ activeTab = "analysis"
  /\ appCrashed = FALSE
  /\ nextId = MaxAutoImages
  /\ folder = NoFolder
  /\ segRun = NoSegRun
  /\ exRuns = <<>>
  /\ effectDue = TRUE

NextAuto ==
  \/ AnalysisEffect /\ UNCHANGED <<statVars, corrVars, segVars, exVars, circVars>>
  \/ \E r \in 1..MaxExRuns :
       ExtractionStep(r) /\ UNCHANGED <<statVars, corrVars, segVars, exVars, circVars>>

SpecAuto == InitAuto /\ [][NextAuto]_vars

\* React runs a due effect, and an awaited extraction settles.
SpecAutoFair ==
  /\ SpecAuto
  /\ WF_appVars(AnalysisEffect)
  /\ \A r \in 1..MaxExRuns : WF_appVars(ExtractionStep(r))

(***************************************************************************)
(* Properties.                                                             *)
(***************************************************************************)
\* a <= b for two numbers that are not NaN.
AtMost(a, b) == a[1] * b[2] <= b[1] * a[2]

\* The rank (1-based, ascending, ties by index) of entry i of pv.
RankOf(pv, i) ==
  Cardinality({j \in DOMAIN pv :
                 Less(pv[j], pv[i]) \/ (pv[j] = pv[i] /\ j <= i)})
\* raw_r * n / r for the entry of rank r, as a fraction <<num, den>>.
CandidateOfRank(pv, r) ==
  LET j == CHOOSE j \in DOMAIN pv : RankOf(pv, j) = r IN
  <<pv[j][1] * Len(pv), pv[j][2] * r>>
\* x is the least of raw_r * n / r over the ranks r >= from.
IsLeastCandidate(pv, from, x) ==
  /\ \E r \in from..Len(pv) :
       x[1] * CandidateOfRank(pv, r)[2] = CandidateOfRank(pv, r)[1] * x[2]
  /\ \A r \in from..Len(pv) : AtMost(x, CandidateOfRank(pv, r))

C2_BHValueAtOriginalIndex ==
  cpc = "corrected" =>
    /\ Len(correctedP) = Len(pValues)
    /\ \A i \in DOMAIN pValues :
         /\ ~IsNaN(correctedP[i])
         /\ IsLeastCandidate(pValues, RankOf(pValues, i), correctedP[i])

\* C2's case: the entry of index 1 has the highest rank, and another entry
\* takes its value from a higher rank than its own.
C2_Witness ==
  /\ cpc = "corrected"
  /\ Len(pValues) = 3
  /\ RankOf(pValues, 1) = 3
  /\ \E i \in DOMAIN pValues :
       Less(correctedP[i],
            Over(Times(pValues[i], Len(pValues)), RankOf(pValues, i)))

\* C3: with Bonferroni every result of a call has corrected_p_value =
\* min(1, p_value * n), n the number of results of the call; with one result
\* the corrected value is the raw value.
C3_BonferroniTimesCount ==
  (outcome = "returned" /\ input.correctionMethod = "Bonferroni") =>
    LET n == Len(results) IN
    \A m \in DOMAIN results :
      LET p == results[m].p_value
          c == results[m].corrected_p_value
      IN /\ IsNaN(p) => IsNaN(c)
         /\ (~IsNaN(p) /\ p[1] * n >= p[2]) => c = One
         /\ (~IsNaN(p) /\ p[1] * n < p[2]) =>
              (~IsNaN(c) /\ c[1] * p[2] = p[1] * n * c[2])
         /\ n = 1 => c = p

\* C3's case: three comparisons under Bonferroni, one corrected value
\* clamped to 1 and one raw value tripled below 1.
C3_Witness ==
  /\ outcome = "returned"
  /\ input.correctionMethod = "Bonferroni"
  /\ Len(results) = 3
  /\ \E m \in DOMAIN results :
       /\ results[m].p_value = Num(1, 8)
       /\ results[m].corrected_p_value = Num(3, 8)
  /\ \E m \in DOMAIN results :
       /\ results[m].p_value = Num(1, 2)
       /\ results[m].corrected_p_value = One

\* C4: a call with fewer than two datasets ends in an error for the caller
\* and returns no result list.
C4_FewerThanTwoDatasetsFail ==
  (outcome # "none" /\ Len(input.data) < 2) => outcome = "threw"

\* C5: a call in which a dataset contributes no numeric sample fails; no
\* substitute sample stands in for it and no result is returned.  Stated for
\* inputs of two datasets or more, where the count of datasets is no reason
\* to fail.
C5_EmptyDatasetFails ==
  (/\ outcome # "none"
   /\ Len(input.data) >= 2
   /\ \E i \in DOMAIN input.data : input.data[i].features = <<>>)
  => /\ outcome = "threw"
     /\ \A i \in DOMAIN datasetFeatures :
          datasetFeatures[i].values = FeatureValues(input.data[i].features)

\* C8: the t-test on exactly two datasets A, B returns exactly one result,
\* labelled A vs B.
C8_TTestOnePairInOrder ==
  (/\ outcome = "returned"
   /\ input.statisticalTest = "t-test"
   /\ Len(input.data) = 2)
  => /\ Len(results) = 1
     /\ results[1].comparison = <<input.data[1].dataset, input.data[2].dataset>>

\* C8's case: a t-test of two datasets with different names has returned.
C8_Witness ==
  /\ outcome = "returned"
  /\ input.statisticalTest = "t-test"
  /\ Len(input.data) = 2
  /\ input.data[1].dataset = "B"
  /\ input.data[2].dataset = "A"
  /\ Len(results) = 1

\* C9: ANOVA over k >= 2 datasets returns k(k-1)/2 + 1 results: one per
\* unordered pair and the omnibus result.
C9_AnovaPairsPlusOmnibus ==
  (/\ outcome = "returned"
   /\ input.statisticalTest = "ANOVA"
   /\ Len(input.data) >= 2)
  => LET k == Len(input.data) IN Len(results) = (k * (k - 1)) \div 2 + 1

\* The place of the pair (i, j), i < j, among the pairs of k datasets in
\* nested index order.
PairPosition(i, j, k) == (i - 1) * k - (i * (i - 1)) \div 2 + (j - i)

C7_SegmentationDeterministic ==
  \A a, b \in DOMAIN segOutputs : segOutputs[a] = segOutputs[b]

\* C6: a call of extractMorphometricFeatures either returns a result computed
\* from its inputs or ends in an error for the caller; when an internal step
\* raises, it does not return placeholder or random numbers.
C6_ResultOrError ==
  exResult.settled = "fulfilled" => ~exCaught

\* The two samples of the m-th comparison of the call that has returned.
ComparedGroups(m) ==
  LET pair == ComparedPairs(input.statisticalTest, Len(datasetFeatures))[m] IN
  <<datasetFeatures[pair[1]].values, datasetFeatures[pair[2]].values>>

\* x is a number of [0, 1].
InUnitInterval(x) == ~IsNaN(x) /\ AtMost(Zero, x) /\ AtMost(x, One)

\* C11: every raw p-value of performTTest is a number of [0, 1], and of two
\* comparisons with the same degrees of freedom the one with the larger
\* |tStat| has no larger p-value; the p-value of performANOVA is a number of
\* [0, 1] as well.
C11_PValueInUnitIntervalAndMonotone ==
  (outcome = "returned" /\ ~caught) =>
    /\ \A m \in DOMAIN rawP : InUnitInterval(rawP[m])
    /\ \A m1, m2 \in DOMAIN rawP :
         LET g1 == ComparedGroups(m1)
             g2 == ComparedGroups(m2)
         IN (/\ WelchDf(g1[1], g1[2]) = WelchDf(g2[1], g2[2])
             /\ AtMost(AbsTStat(g1[1], g1[2]), AbsTStat(g2[1], g2[2])))
            => AtMost(rawP[m2], rawP[m1])
    /\ input.statisticalTest = "ANOVA" =>
         \A pValue \in performANOVA([i \in DOMAIN datasetFeatures |->
                                       datasetFeatures[i].values]) :
           pValue.form = "p" => InUnitInterval(pValue.x)

\* C12: a t-test of two datasets with the same values, all of them equal,
\* gives the raw p-value 1.
C12_IdenticalDatasetsGiveOne ==
  (/\ outcome = "returned" /\ ~caught /\ ss
   /\ input.statisticalTest = "t-test"
   /\ Len(input.data) = 2
   /\ input.data[1].features # <<>>
   /\ input.data[1].features = input.data[2].features
   /\ ZeroDeviation(FeatureValues(input.data[1].features)))
  => /\ Len(results) = 1
     /\ results[1].p_value = One

\* The values of the entries of a feature record that belong to one metric.
ValuesOfMetric(features, metric) ==
  FeatureValues(SelectSeq(features, LAMBDA entry : entry.key = metric))

\* C13: the sample compared for a dataset that has feature values holds the
\* values of one metric only: it is the list of the dataset's values of that
\* metric.
C13_OneMetricPerSample ==
  (outcome = "returned" /\ ~caught) =>
    \A i \in DOMAIN datasetFeatures :
      input.data[i].features # <<>> =>
        \E metric \in {Metrics[j] : j \in DOMAIN Metrics} :
          datasetFeatures[i].values =
            ValuesOfMetric(input.data[i].features, metric)

\* The pixels next to pixel idx in its row and in its column.
Neighbours4(idx) ==
  {n \in {idx - GridW, idx + GridW} : n \in Pixels}
  \cup (IF PixelX(idx) > 0 THEN {idx - 1} ELSE {})
  \cup (IF PixelX(idx) < GridW - 1 THEN {idx + 1} ELSE {})

\* The foreground of a mask: the pixels brighter than the threshold.
Foreground(img) == {idx \in Pixels : img.data[idx] > WhiteThreshold}

\* The pixels of region on a path of up/down/left/right steps inside region
\* from a pixel of reached; frontier holds the pixels reached last.
RECURSIVE Reach(_, _, _)
Reach(region, reached, frontier) ==
  LET next == (UNION {Neighbours4(p) : p \in frontier} \cap region) \ reached
  IN IF next = {} THEN reached ELSE Reach(region, reached \cup next, next)

PixelSet(component) == {component[i] : i \in DOMAIN component}

\* region is a maximal 4-connected set of foreground pixels of img.
IsMaximal4Connected(img, region) ==
  /\ region # {}
  /\ region \subseteq Foreground(img)
  /\ LET p == CHOOSE p \in region : TRUE IN Reach(region, {p}, {p}) = region
  /\ \A p \in region : (Neighbours4(p) \cap Foreground(img)) \subseteq region

\* A computed result: the try block of extractMorphometricFeatures returned.
ExtractionComputed == exResult.settled = "fulfilled" /\ ~exCaught

\* C14: every component findConnectedComponents returns is a maximal
\* 4-connected set of foreground pixels of the mask: its pixels are joined by
\* paths of up/down/left/right steps inside it, and no foreground pixel next
\* to it in a row or column lies outside it.
C14_ComponentsMaximal4Connected ==
  ExtractionComputed =>
    \A i \in DOMAIN exComponents :
      IsMaximal4Connected(exInput.segmentation, PixelSet(exComponents[i]))

\* C14's case: a returned component has a foreground pixel outside it that
\* touches it at a corner only.
C14_Witness ==
  /\ ExtractionComputed
  /\ \E i \in DOMAIN exComponents :
       \E p \in PixelSet(exComponents[i]) :
         \E q \in Foreground(exInput.segmentation) \ PixelSet(exComponents[i]) :
           /\ PixelX(q) = PixelX(p) + 1
           /\ PixelY(q) = PixelY(p) + 1

\* The pixel of a component the row-major scan meets first.
FirstScanned(component) ==
  CHOOSE p \in PixelSet(component) : \A q \in PixelSet(component) : p <= q

\* C15: the feature records of one extraction carry the ids 1..k, k the
\* number of kept regions, in list order; the regions are numbered in the
\* row-major order of their first scanned pixels, and no record has area 0.
C15_DenseIdsInDiscoveryOrder ==
  ExtractionComputed =>
    /\ Len(exResult.features) = Len(exComponents)
    /\ \A i \in DOMAIN exResult.features :
         /\ exResult.features[i].nucleusId = i
         /\ exResult.features[i].area = Cardinality(PixelSet(exComponents[i]))
         /\ exResult.features[i].area > 0
    /\ \A i, j \in DOMAIN exComponents :
         i < j => FirstScanned(exComponents[i]) < FirstScanned(exComponents[j])

\* C15's case: two kept regions, the first of them to the right of the
\* second.
C15_Witness ==
  /\ ExtractionComputed
  /\ Len(exResult.features) = 2
  /\ PixelX(FirstScanned(exComponents[1])) > PixelX(FirstScanned(exComponents[2]))

\* The maximal 4-connected set of foreground pixels that holds pixel p.
RegionOf(img, p) == Reach(Foreground(img), {p}, {p})

\* C16: a connected component of the mask is returned exactly when it has 50
\* pixels or more: one of 50 is kept, one of 49 is dropped.
C16_KeptFromFiftyPixels ==
  ExtractionComputed =>
    \A p \in Foreground(exInput.segmentation) :
      LET region == RegionOf(exInput.segmentation, p) IN
      (Cardinality(region) >= MinComponentSize)
        <=> (\E i \in DOMAIN exComponents : PixelSet(exComponents[i]) = region)

\* Pixel idx lies in the first or last row or column of the image.
OnBorder(idx) ==
  \/ PixelX(idx) = 0 \/ PixelX(idx) = GridW - 1
  \/ PixelY(idx) = 0 \/ PixelY(idx) = GridH - 1

\* C17: no returned region holds a pixel of the first or last row or column
\* of the image; a mask that is foreground everywhere gives no region.
C17_NoRegionTouchesBorder ==
  ExtractionComputed =>
    \A i \in DOMAIN exComponents :
      \A p \in PixelSet(exComponents[i]) : ~OnBorder(p)

\* C18: for an image without foreground pixels (here: no pixel brighter than
\* 128 and no contour to find) that decodes, every run of the segmenter
\* settles without error and reports the nuclei count 0.
C18_NoForegroundNoRegions ==
  (/\ segImage.decodes
   /\ segImage.brightPixels = 0
   /\ segImage.contours = 0)
  => \A n \in DOMAIN segOutputs :
       /\ segOutputs[n].settled = "fulfilled"
       /\ segOutputs[n].nucleiCount = 0

\* The pixels of region with one of their four neighbour positions outside
\* region; a position beyond the image border is outside.
BoundaryPixels(region) ==
  {p \in region : OnBorder(p) \/ \E n \in Neighbours4(p) : n \notin region}

\* C19: the perimeter of every region is the number of its pixels that have
\* one of their four neighbours outside the region, a position beyond the
\* image border counting as outside.
C19_PerimeterCountsBoundaryPixels ==
  ExtractionComputed =>
    \A i \in DOMAIN exComponents :
      exResult.features[i].perimeter =
        Cardinality(BoundaryPixels(PixelSet(exComponents[i])))

\* The smallest rectangle <<x0, x1, y0, y1>> that holds the pixels of region.
BoundingBox(region) ==
  LET xs == {PixelX(p) : p \in region}
      ys == {PixelY(p) : p \in region}
  IN <<CHOOSE x \in xs : \A z \in xs : x <= z,
       CHOOSE x \in xs : \A z \in xs : x >= z,
       CHOOSE y \in ys : \A z \in ys : y <= z,
       CHOOSE y \in ys : \A z \in ys : y >= z>>
BoxWidth(box) == box[2] - box[1] + 1
BoxHeight(box) == box[4] - box[3] + 1

\* The foreground of the mask is one filled rectangle of width and height
\* above 1 that does not touch the image border, and it is component i.
IsolatedRectangle(i) ==
  LET region == PixelSet(exComponents[i])
      box == BoundingBox(region)
  IN /\ region = Foreground(exInput.segmentation)
     /\ region = {p \in Pixels : InRectangle(p, box)}
     /\ BoxWidth(box) > 1 /\ BoxHeight(box) > 1
     /\ \A p \in region : ~OnBorder(p)

\* C20 as stated: the perimeter of an isolated filled rectangle of width w
\* and height h (w, h > 1) off the image border is 2w + 2h.
C20_RectanglePerimeterAsStated ==
  ExtractionComputed =>
    \A i \in DOMAIN exComponents :
      IsolatedRectangle(i) =>
        LET box == BoundingBox(PixelSet(exComponents[i])) IN
        exResult.features[i].perimeter = 2 * BoxWidth(box) + 2 * BoxHeight(box)

\* C20, amended: the perimeter of an isolated filled rectangle of width w and
\* height h (w, h > 1) off the image border is 2w + 2h - 4, the number of
\* its boundary pixels: each corner pixel is counted once.
C20_RectanglePerimeter ==
  ExtractionComputed =>
    \A i \in DOMAIN exComponents :
      IsolatedRectangle(i) =>
        LET box == BoundingBox(PixelSet(exComponents[i])) IN
        exResult.features[i].perimeter =
          2 * BoxWidth(box) + 2 * BoxHeight(box) - 4

\* C20's case: an isolated rectangle of 13 x 4 pixels off the border.
C20_Witness ==
  /\ ExtractionComputed
  /\ Len(exComponents) = 1
  /\ IsolatedRectangle(1)
  /\ BoxHeight(BoundingBox(PixelSet(exComponents[1]))) = 4
  /\ exResult.features[1].perimeter = 30

\* The circularity c, a fraction q or q * PI, lies in [0, 1].
CircularityInUnitInterval(c) ==
  /\ c.q[2] > 0 /\ c.q[1] >= 0
  /\ IF c.unit = "1" THEN c.q[1] <= c.q[2]
     ELSE PiNum * c.q[1] < PiDen * c.q[2]

\* C21: the circularity of a feature record lies in [0, 1]; it is 0 when the
\* perimeter is 0, and otherwise 4 * PI * area / perimeter^2, replaced by 1
\* when that is 1 or more.
C21_CircularityClampedInUnitInterval ==
  ccCircularity # NoCircularity =>
    /\ CircularityInUnitInterval(ccCircularity)
    /\ IF ccPerimeter = 0
       THEN ccCircularity = [unit |-> "1", q |-> Zero]
       ELSE IF PiNum * 4 * ccArea >= PiDen * ccPerimeter * ccPerimeter
       THEN ccCircularity = [unit |-> "1", q |-> One]
       ELSE ccCircularity =
              [unit |-> "pi",
               q |-> Num(4 * ccArea, ccPerimeter * ccPerimeter)]

\* A component of 56 pixels with 26 of them on its boundary (an 8 x 7
\* rectangle): 4 * PI * 56 / 676 is above 1 and the record holds 1.
C21_Witness ==
  /\ ccArea = 56 /\ ccPerimeter = 26
  /\ ccCircularity = [unit |-> "1", q |-> One]

\* The two images of the input differ in width or height.
DimensionMismatch ==
  \/ exInput.image.width # exInput.segmentation.width
  \/ exInput.image.height # exInput.segmentation.height

\* C22: with a mask and an intensity image of different width or height the
\* call fails: it returns no features, and no mean intensity is computed from
\* the components of the mask.
C22_DimensionMismatchFails ==
  (DimensionMismatch /\ exInput.imageDecodes /\ exInput.segmentationDecodes)
    => /\ exResult.settled # "fulfilled"
       /\ exComponents = <<>>

C24_DatasetNamesUnique ==
  /\ \A i, j \in DOMAIN datasets :
       datasets[i].name = datasets[j].name => i = j
  /\ ~appCrashed

\* C25: at most one runFeatureExtraction call is in flight at any time.
C25_AtMostOneExtractionRun == Len(exRuns) <= 1

\* A step in which a runFeatureExtraction call starts.
RunStarts == Len(exRuns') > Len(exRuns)

\* C26: from some point on no runFeatureExtraction call is started.
C26_ExtractionQuiesces == <>[][~RunStarts]_vars

\* C27: the trigger of the active tab is enabled.
C27_ActiveTabEnabled == TabEnabled(activeTab, datasets)

\* The images of ds before image i of dataset d, in dataset order and then
\* image order, plus one.
RECURSIVE ImageRank(_, _, _)
ImageRank(ds, d, i) ==
  IF d = 1 THEN i ELSE Len(ds[d - 1].images) + ImageRank(ds, d - 1, i)

C29_EachForegroundPixelFilledOnce ==
  ExtractionComputed =>
    /\ \A k \in DOMAIN exFills :
         /\ exFills[k].drained
         /\ Cardinality(PixelSet(exFills[k].pixels)) = Len(exFills[k].pixels)
         /\ PixelSet(exFills[k].pixels) \subseteq
              Foreground(exInput.segmentation)
    /\ \A p \in Foreground(exInput.segmentation) :
         Cardinality({k \in DOMAIN exFills :
                        p \in PixelSet(exFills[k].pixels)}) = 1

\* The discovery has filled two components and the size filter has dropped
\* one of them.
C29_Witness ==
  /\ ExtractionComputed
  /\ Len(exFills) = 2
  /\ Len(exComponents) = 1

====
